---- MODULE Spec2Model ----
(***************************************************************************)
(* Organizer views of pretalx (pretalx/orga/views/event.py): event         *)
(* creation and editing, mail settings, team permissions and invitation    *)
(* acceptance, as state machines over the EventPermission table, the Event *)
(* table and the per-event settings store.                                 *)
(*                                                                         *)
(* Requests are handled one at a time, each by one action that runs its    *)
(* handler to completion.  The variable `last` holds the request being     *)
(* answered (its inputs, the tables before it, its outcome and its side    *)
(* effects: log entries, mails, tasks) until the response is delivered.    *)
(***************************************************************************)
EXTENDS Integers, Sequences, FiniteSets, TLC

VARIABLES
    events,          \* Event table: the set of event slugs
    event_fields,    \* Event row of each event (the fields EventForm edits)
    event_settings,  \* event.settings of each event (EventSettingsForm / MailSettingsForm)
    perms,           \* EventPermission table: a set of rows
    nextId,          \* next primary key of the EventPermission table
    last             \* the request being answered, Idle between requests

vars == <<events, event_fields, event_settings, perms, nextId, last>>

(***************************** bounds **************************************)
MaxId == 3          \* EventPermission rows ever created
MaxEvents == 2      \* Event rows ever created
MaxNewForms == 2    \* extra (new) forms in one team formset
MaxTokenId == 4     \* EventPermission rows ever created where tokens are followed

(***************************** scope ***************************************)
\* Outside this file and not modelled: who may reach EventTeam and
\* EventMailSettings (the PermissionRequired mixin), the login or registration
\* that UserForm.save() performs (the users are a fixed table, and an
\* acceptance names the user the form ended with), the review_override_count
\* column, and the contents of messages and mails.

(***************************** values **************************************)
None == "None"      \* a null column / a missing object
NoToken == <<>>     \* invitation_token IS NULL

\* The User table.  "rev" has chosen the e-mail address of "orga" as nick, so
\* that a lookup by nick and a lookup by e-mail can disagree.
Users == {"root", "orga", "rev"}
Anonymous == "anonymous"
Nick(u) == CASE u = "root" -> "root" [] u = "orga" -> "orga" [] u = "rev" -> "orga@x"
Email(u) == CASE u = "root" -> "root@x" [] u = "orga" -> "orga@x" [] u = "rev" -> "rev@x"
Pk(u) == CASE u = "root" -> 1 [] u = "orga" -> 2 [] u = "rev" -> 3
is_administrator(u) == u = "root"

\* The texts typed into an invitation_email field
Addresses == {"orga@x", "rev@x", "other@x"}

EventSlugs == {"e1", "e2", "e3"}
SlugOf(n) == CASE n = 1 -> "e1" [] n = 2 -> "e2" [] OTHER -> "e3"

(***************************** helpers *************************************)
\* QuerySet.first(): the row with the least primary key
FirstUser(S) == IF S = {} THEN None ELSE CHOOSE u \in S : \A w \in S : Pk(u) <= Pk(w)
FirstPerm(S) == IF S = {} THEN {} ELSE {CHOOSE p \in S : \A q \in S : p.id <= q.id}

RECURSIVE SortedById(_)
SortedById(S) ==
    IF S = {} THEN <<>>
    ELSE LET p == CHOOSE x \in S : \A y \in S : x.id <= y.id
         IN  <<p>> \o SortedById(S \ {p})

EventPerms(P, e) == {p \in P : p.event = e}
OrgaPerms(P, e) == {p \in P : p.event = e /\ p.is_orga}

(***************************** EventTeam ***********************************)
\* The lookup with the e-mail match taken before the nick match
_find_user_email_first(email) ==
    LET byNick == FirstUser({u \in Users : Nick(u) = email})
        byEmail == FirstUser({u \in Users : Email(u) = email})
    IN  IF byEmail # None THEN byEmail ELSE byNick

\* _find_user, lines 183-186:
\* User.objects.filter(nick=email).first() or User.objects.filter(email=email).first()
_find_user(email) ==
    LET byNick == FirstUser({u \in Users : Nick(u) = email})
        byEmail == FirstUser({u \in Users : Email(u) = email})
    IN  IF byNick # None THEN byNick ELSE byEmail

\* len([p for p in permissions if p.is_orga])
_count_orga_permissions(permissions) ==
    Cardinality({i \in DOMAIN permissions : permissions[i].is_orga})

\* p.is_orga raises AttributeError for an element that has no such attribute
RaisesAttributeError(permissions) ==
    \E i \in DOMAIN permissions : "is_orga" \notin DOMAIN permissions[i]

\* The formset of a POST: one initial form per row of the event (in primary
\* key order) and the extra forms.  A ModelForm writes its cleaned data into
\* its instance when it is validated, so the objects the formset hands out
\* carry the submitted values.
Cleaned(row, form) ==
    [row EXCEPT !.is_orga = form.is_orga,
                !.is_reviewer = form.is_reviewer,
                !.invitation_email = form.invitation_email]

has_changed(row, form) ==
    \/ row.is_orga # form.is_orga
    \/ row.is_reviewer # form.is_reviewer
    \/ row.invitation_email # form.invitation_email

\* formset.deleted_objects: the instances of the initial forms marked DELETE
deleted_objects(rows, initial) ==
    SelectSeq([i \in DOMAIN rows |-> Cleaned(rows[i], initial[i])],
              LAMBDA r : \E i \in DOMAIN rows : rows[i].id = r.id /\ initial[i].DELETE)

\* formset.changed_objects: for every initial form that is not marked DELETE
\* and whose data differ from the row, Django's
\* BaseModelFormSet.save_existing_objects appends the pair
\* (instance, form.changed_data), not the instance (deleted_objects and
\* new_objects hold instances).
changed_objects(rows, initial) ==
    LET pairs == [i \in DOMAIN rows |->
                    [instance |-> Cleaned(rows[i], initial[i]),
                     changed_data |-> has_changed(rows[i], initial[i])]]
    IN  SelectSeq(pairs, LAMBDA c : \E i \in DOMAIN rows :
                      /\ rows[i].id = c.instance.id
                      /\ ~initial[i].DELETE
                      /\ has_changed(rows[i], initial[i]))

\* formset.new_objects: one unsaved instance per extra form; its primary key
\* is the one the INSERT will give it, its invitation_token the model default.
new_objects(e, extra, firstId) ==
    [i \in DOMAIN extra |->
        [id |-> firstId + i - 1, event |-> e, user |-> None,
         is_orga |-> extra[i].is_orga, is_reviewer |-> extra[i].is_reviewer,
         invitation_email |-> extra[i].invitation_email,
         invitation_token |-> <<firstId + i - 1>>]]

\* formset.save(commit=False): the instances of the changed initial forms,
\* then those of the extra forms; nothing is written.
formset_save(rows, initial, extra, e, firstId) ==
    LET ch == changed_objects(rows, initial)
    IN  [i \in DOMAIN ch |-> ch[i].instance] \o new_objects(e, extra, firstId)

\* has_remaining_team, lines 191-196: "True", "False", or the AttributeError
\* that leaves the method when an element has no is_orga.
has_remaining_team(new, changed, deleted) ==
    IF RaisesAttributeError(new) \/ RaisesAttributeError(changed)
           \/ RaisesAttributeError(deleted)
    THEN "AttributeError"
    ELSE IF _count_orga_permissions(new) + _count_orga_permissions(changed)
               - _count_orga_permissions(deleted) > 0
         THEN "True" ELSE "False"

\* lines 210-211: permission.delete() for each deleted object
DeletePhase(P, deleted) ==
    {p \in P : \A i \in DOMAIN deleted : deleted[i].id # p.id}

\* lines 214-220: a permission whose invitation_email names a user is bound
Resolve(permission) ==
    IF permission.invitation_email = None THEN permission
    ELSE LET user == _find_user(permission.invitation_email)
         IN  IF user = None THEN permission
             ELSE [permission EXCEPT !.user = user,
                                     !.invitation_email = None,
                                     !.invitation_token = NoToken]

\* line 228: permission.save(), an UPDATE or INSERT by primary key
Save(P, permission) == {p \in P : p.id # permission.id} \cup {permission}

\* lines 213-228, the rows as they are saved, in order
SavedRows(permissions) == [i \in DOMAIN permissions |-> Resolve(permissions[i])]

RECURSIVE SavePhase(_, _, _)
SavePhase(P, saved, i) ==
    IF i > Len(saved) THEN P ELSE SavePhase(Save(P, saved[i]), saved, i + 1)

\* line 221: one invitation mail per permission that carried an invitation_email
Invited(permissions) ==
    SelectSeq(permissions, LAMBDA p : p.invitation_email # None)

\* The loop of lines 230-235 left out
DedupPhase_skipped(P, saved, i) == P

\* lines 230-235: for each saved permission bound to a user, delete every other
\* row of that user and event
RECURSIVE DedupPhase(_, _, _)
DedupPhase(P, saved, i) ==
    IF i > Len(saved) THEN P
    ELSE LET p == saved[i]
             kept == IF p.user = None THEN P
                     ELSE {q \in P : ~(q.event = p.event /\ q.user = p.user /\ q.id # p.id)}
         IN  DedupPhase(kept, saved, i + 1)

\* What a request leaves behind
Response(op, outcome) ==
    [op |-> op, outcome |-> outcome, event |-> None, user |-> None,
     code |-> NoToken, before |-> [perms |-> {}], marked |-> {}, edited |-> {},
     data |-> <<>>, extra |-> <<>>, saved |-> <<>>, mails |-> 0, logs |-> <<>>,
     tasks |-> <<>>, message |-> None, redirect |-> None]

\* post with the deletions done before has_remaining_team is asked
EventTeam_post_delete_first(P, nid, e, valid, initial, extra) ==
    LET rows == SortedById(EventPerms(P, e))
        deleted == deleted_objects(rows, initial)
        changed == changed_objects(rows, initial)
        new == new_objects(e, extra, nid)
        permissions == formset_save(rows, initial, extra, e, nid)
        remaining == has_remaining_team(new, changed, deleted)
        saved == SavedRows(permissions)
        resp == [Response("team", "ok") EXCEPT
                    !.event = e,
                    !.marked = {rows[i].id : i \in {j \in DOMAIN rows : initial[j].DELETE}},
                    !.edited = {rows[i].id : i \in {j \in DOMAIN rows :
                                    has_changed(rows[j], initial[j])}},
                    !.extra = extra,
                    !.redirect = "team_settings"]
    IN  IF ~valid
        THEN [perms |-> P, nextId |-> nid, last |-> [resp EXCEPT !.outcome = "invalid"]]
        ELSE IF remaining = "AttributeError"
        THEN \* the exception leaves post; transaction.atomic has nothing to undo
             [perms |-> P, nextId |-> nid,
              last |-> [resp EXCEPT !.outcome = "error", !.redirect = None]]
        ELSE IF remaining = "False"
        THEN [perms |-> DeletePhase(P, deleted), nextId |-> nid,
              last |-> [resp EXCEPT !.outcome = "lonely"]]
        ELSE [perms |-> DedupPhase(SavePhase(DeletePhase(P, deleted), saved, 1), saved, 1),
              nextId |-> nid + Len(extra),
              last |-> [resp EXCEPT
                          !.saved = saved,
                          !.mails = Len(Invited(permissions)),
                          !.logs = [i \in DOMAIN Invited(permissions) |->
                                        "pretalx.invite.orga.send"]]]

\* EventTeam.post, lines 198-240.  rows: the rows of the event in primary key
\* order; initial[i]: the data of the form of rows[i]; extra: the new forms;
\* valid: formset.is_valid().  The result is the table, the next primary key
\* and the response.
EventTeam_post(P, nid, e, valid, initial, extra) ==
    LET rows == SortedById(EventPerms(P, e))
        deleted == deleted_objects(rows, initial)
        changed == changed_objects(rows, initial)
        new == new_objects(e, extra, nid)
        permissions == formset_save(rows, initial, extra, e, nid)
        remaining == has_remaining_team(new, changed, deleted)
        saved == SavedRows(permissions)
        resp == [Response("team", "ok") EXCEPT
                    !.event = e,
                    !.marked = {rows[i].id : i \in {j \in DOMAIN rows : initial[j].DELETE}},
                    !.edited = {rows[i].id : i \in {j \in DOMAIN rows :
                                    has_changed(rows[j], initial[j])}},
                    !.extra = extra,
                    !.redirect = "team_settings"]
    IN  IF ~valid
        THEN [perms |-> P, nextId |-> nid, last |-> [resp EXCEPT !.outcome = "invalid"]]
        ELSE IF remaining = "AttributeError"
        THEN \* the exception leaves post; transaction.atomic has nothing to undo
             [perms |-> P, nextId |-> nid,
              last |-> [resp EXCEPT !.outcome = "error", !.redirect = None]]
        ELSE IF remaining = "False"
        THEN [perms |-> P, nextId |-> nid, last |-> [resp EXCEPT !.outcome = "lonely"]]
        ELSE [perms |-> DedupPhase(SavePhase(DeletePhase(P, deleted), saved, 1), saved, 1),
              nextId |-> nid + Len(extra),
              last |-> [resp EXCEPT
                          !.saved = saved,
                          !.mails = Len(Invited(permissions)),
                          !.logs = [i \in DOMAIN Invited(permissions) |->
                                        "pretalx.invite.orga.send"]]]

Idle == Response("idle", "idle")

\* The tables as a request finds them
Tables(E, F, S, P) == [events |-> E, event_fields |-> F, event_settings |-> S, perms |-> P]

(***************************** InvitationView ******************************)
\* The lookup without the user__isnull=True filter
InvitationView_object_any_user(P, code) ==
    {p \in P : p.invitation_token = code}

\* InvitationView.object, lines 248-254: the rows a code resolves to
InvitationView_object(P, code) ==
    {p \in P : p.invitation_token = code /\ p.user = None}

\* The merge with the flags of the invitation written over those of the
\* user's row
InvitationView_form_valid_overwrite(P, permission, user) ==
    LET found == FirstPerm({q \in P : /\ q.user = user
                                      /\ q.event = permission.event
                                      /\ q.id # permission.id})
    IN  IF found = {}
        THEN Save(P, [permission EXCEPT !.user = user])
        ELSE LET perm == CHOOSE q \in found : TRUE
                 merged == [perm EXCEPT !.is_orga = permission.is_orga,
                                        !.is_reviewer = permission.is_reviewer]
             IN  Save(Save(P, merged) \ {permission}, [merged EXCEPT !.user = user])

\* InvitationView.form_valid, lines 269-282: the table after the invitation
\* `permission` is accepted by `user`
InvitationView_form_valid(P, permission, user) ==
    LET found == FirstPerm({q \in P : /\ q.user = user
                                      /\ q.event = permission.event
                                      /\ q.id # permission.id})
    IN  IF found = {}
        THEN Save(P, [permission EXCEPT !.user = user])
        ELSE LET perm == CHOOSE q \in found : TRUE
                 merged == [perm EXCEPT
                              !.is_orga = IF permission.is_orga THEN TRUE ELSE perm.is_orga,
                              !.is_reviewer = IF permission.is_reviewer THEN TRUE
                                              ELSE perm.is_reviewer]
             IN  Save(Save(P, merged) \ {permission}, [merged EXCEPT !.user = user])

(***************************** EventDetail *********************************)
\* user.has_perm('orga.change_settings', event): the rule lives outside this
\* file; an administrator or an orga member of the event holds it.
has_perm(user, P, e) ==
    /\ user # Anonymous
    /\ \/ is_administrator(user)
       \/ \E p \in P : p.event = e /\ p.user = user /\ p.is_orga

\* EventDetail._action, lines 38-44
_action(user, P, e) ==
    IF e = None THEN "create"
    ELSE IF has_perm(user, P, e) THEN "edit" ELSE "view"

\* dispatch without the administrator check of create mode
dispatch_create_unchecked(user, P, e) ==
    IF _action(user, P, e) = "create" THEN "proceed"
    ELSE IF ~has_perm(user, P, e) THEN "PermissionDenied" ELSE "proceed"

\* EventDetail.dispatch, lines 51-58
dispatch(user, P, e) ==
    IF _action(user, P, e) = "create"
    THEN IF user # Anonymous /\ ~is_administrator(user)
         THEN "PermissionDenied" ELSE "proceed"
    ELSE IF ~has_perm(user, P, e) THEN "PermissionDenied" ELSE "proceed"

\* The contents of an Event row and of its settings, as the forms submit them
EventData == {"d1", "d2"}
SettingsData == {"s1", "s2"}
MailData ==
    [mail_from : {"orga@x", "foo@bar.com"}, smtp_port : {"587", "25"},
     smtp_use_custom : BOOLEAN]
DefaultSettings ==
    [display |-> "s0",
     mail |-> [mail_from |-> "orga@x", smtp_port |-> "587", smtp_use_custom |-> FALSE]]

\* The creator's row without is_orga=True
CreatorPermission_default_flags(e, user, id) ==
    [id |-> id, event |-> e, user |-> user, is_orga |-> FALSE, is_reviewer |-> FALSE,
     invitation_email |-> None, invitation_token |-> <<id>>]

\* EventPermission.objects.create(event=..., user=..., is_orga=True), lines 104-108
CreatorPermission(e, user, id) ==
    [id |-> id, event |-> e, user |-> user, is_orga |-> TRUE, is_reviewer |-> FALSE,
     invitation_email |-> None, invitation_token |-> <<id>>]

\* form_valid with the Event saved before the settings form is validated
EventDetail_form_valid_save_first(E, F, S, P, nid, user, e, slug, data, sdata, sformValid) ==
    LET new_event == e = None
        unchanged == [events |-> E, event_fields |-> [F EXCEPT ![e] = data],
                      event_settings |-> S, perms |-> P, nextId |-> nid]
        resp == [Response(IF new_event THEN "create" ELSE "edit", "ok") EXCEPT
                    !.event = IF new_event THEN slug ELSE e,
                    !.user = user, !.data = <<data, sdata, TRUE, sformValid>>]
    IN  IF ~new_event /\ ~sformValid
        THEN unchanged @@ [last |-> [resp EXCEPT !.outcome = "invalid"]]
        ELSE IF new_event
        THEN [events |-> E \cup {slug},
              event_fields |-> [x \in E \cup {slug} |-> IF x = slug THEN data ELSE F[x]],
              event_settings |-> [x \in E \cup {slug} |->
                                     IF x = slug THEN DefaultSettings ELSE S[x]],
              perms |-> P \cup {CreatorPermission(slug, user, nid)},
              nextId |-> nid + 1,
              last |-> [resp EXCEPT !.logs = <<"pretalx.event.create">>,
                                    !.tasks = <<slug>>,
                                    !.message = "success"]]
        ELSE [events |-> E,
              event_fields |-> [F EXCEPT ![e] = data],
              event_settings |-> [S EXCEPT ![e].display = sdata],
              perms |-> P,
              nextId |-> nid,
              last |-> [resp EXCEPT !.logs = <<"pretalx.event.update">>,
                                    !.tasks = <<e>>,
                                    !.message = "success"]]

\* EventDetail.form_valid, lines 92-114, for a valid EventForm.  e = None for
\* a new event, whose slug is then `slug`.  sformValid: self.sform.is_valid().
\* The result is the tables and the response.
EventDetail_form_valid(E, F, S, P, nid, user, e, slug, data, sdata, sformValid) ==
    LET new_event == e = None
        unchanged == [events |-> E, event_fields |-> F, event_settings |-> S,
                      perms |-> P, nextId |-> nid]
        resp == [Response(IF new_event THEN "create" ELSE "edit", "ok") EXCEPT
                    !.event = IF new_event THEN slug ELSE e,
                    !.user = user, !.data = <<data, sdata, TRUE, sformValid>>]
    IN  IF ~new_event /\ ~sformValid
        THEN unchanged @@ [last |-> [resp EXCEPT !.outcome = "invalid"]]
        ELSE IF new_event
        THEN [events |-> E \cup {slug},
              event_fields |-> [x \in E \cup {slug} |-> IF x = slug THEN data ELSE F[x]],
              event_settings |-> [x \in E \cup {slug} |->
                                     IF x = slug THEN DefaultSettings ELSE S[x]],
              perms |-> P \cup {CreatorPermission(slug, user, nid)},
              nextId |-> nid + 1,
              last |-> [resp EXCEPT !.logs = <<"pretalx.event.create">>,
                                    !.tasks = <<slug>>,
                                    !.message = "success"]]
        ELSE [events |-> E,
              event_fields |-> [F EXCEPT ![e] = data],
              event_settings |-> [S EXCEPT ![e].display = sdata],
              perms |-> P,
              nextId |-> nid,
              last |-> [resp EXCEPT !.logs = <<"pretalx.event.update">>,
                                    !.tasks = <<e>>,
                                    !.message = "success"]]

(***************************** EventMailSettings ***************************)
\* form_valid with the save after the test, so that a failing test skips it
EventMailSettings_form_valid_test_first(S, e, data, test, raises) ==
    LET saved == [S EXCEPT ![e].mail = data]
        resp == [Response("mail", "saved") EXCEPT !.event = e,
                                                  !.data = <<data, test, raises>>,
                                                  !.redirect = "mail_settings"]
    IN  IF test
        THEN IF raises
             THEN [event_settings |-> S,
                   last |-> [resp EXCEPT !.outcome = "test_failed", !.message = "warning"]]
             ELSE [event_settings |-> saved,
                   last |-> [resp EXCEPT !.outcome = "test_ok", !.message = "success"]]
        ELSE [event_settings |-> saved, last |-> [resp EXCEPT !.message = "success"]]

\* EventMailSettings.form_valid, lines 132-154, for a valid MailSettingsForm.
\* test: the POST carries test=1; raises: backend.test() raises.
EventMailSettings_form_valid(S, e, data, test, raises) ==
    LET saved == [S EXCEPT ![e].mail = data]
        resp == [Response("mail", "saved") EXCEPT !.event = e,
                                                  !.data = <<data, test, raises>>,
                                                  !.redirect = "mail_settings"]
    IN  IF test
        THEN IF raises
             THEN [event_settings |-> saved,
                   last |-> [resp EXCEPT !.outcome = "test_failed", !.message = "warning"]]
             ELSE [event_settings |-> saved,
                   last |-> [resp EXCEPT !.outcome = "test_ok", !.message = "success"]]
        ELSE [event_settings |-> saved, last |-> [resp EXCEPT !.message = "success"]]

(***************************** requests ************************************)
\* The data a client can submit for the form of one existing row: the row
\* as it is, the row marked DELETE, or one field edited
Unedited(row) ==
    [DELETE |-> FALSE, is_orga |-> row.is_orga, is_reviewer |-> row.is_reviewer,
     invitation_email |-> row.invitation_email]

InitialFormData(row) ==
    {Unedited(row),
     [Unedited(row) EXCEPT !.DELETE = TRUE],
     [Unedited(row) EXCEPT !.is_orga = ~row.is_orga],
     [Unedited(row) EXCEPT !.is_reviewer = ~row.is_reviewer],
     [Unedited(row) EXCEPT !.invitation_email = "other@x"]}

RECURSIVE InitialFormsets(_)
InitialFormsets(rows) ==
    IF rows = <<>> THEN {<<>>}
    ELSE {<<f>> \o rest : f \in InitialFormData(Head(rows)),
                          rest \in InitialFormsets(Tail(rows))}

\* The data a client can submit for one extra form
ExtraFormData ==
    [is_orga : BOOLEAN, is_reviewer : BOOLEAN, invitation_email : Addresses]

RECURSIVE ExtraFormsets(_)
ExtraFormsets(n) ==
    IF n = 0 THEN {<<>>}
    ELSE LET shorter == ExtraFormsets(n - 1)
         IN  shorter \cup
             {Append(fs, f) : fs \in {x \in shorter : Len(x) = n - 1},
                              f \in ExtraFormData}

DistinctAddresses(extra) ==
    \A i, j \in DOMAIN extra :
        i # j => extra[i].invitation_email # extra[j].invitation_email

\* The extra forms of one POST: up to MaxNewForms, no two inviting the same address
ExtraForms == {extra \in ExtraFormsets(MaxNewForms) : DistinctAddresses(extra)}

Init ==
    /\ events = {"e1"}
    /\ event_fields = [e \in {"e1"} |-> "d1"]
    /\ event_settings = [e \in {"e1"} |-> DefaultSettings]
    /\ perms = {[id |-> 1, event |-> "e1", user |-> "orga", is_orga |-> TRUE,
                 is_reviewer |-> FALSE, invitation_email |-> None,
                 invitation_token |-> NoToken]}
    /\ nextId = 2
    /\ last = Idle

\* The response, with the tables the request found
Answer(resp) ==
    [resp EXCEPT !.before = Tables(events, event_fields, event_settings, perms)]

\* POST to the team settings of event e with a formset that validates
TeamPost ==
    /\ last.op = "idle"
    /\ \E e \in events, extra \in ExtraForms :
        /\ nextId + Len(extra) - 1 <= MaxId
        /\ \E initial \in InitialFormsets(SortedById(EventPerms(perms, e))) :
           LET r == EventTeam_post(perms, nextId, e, TRUE, initial, extra)
           IN  /\ perms' = r.perms
               /\ nextId' = r.nextId
               /\ last' = Answer(r.last)
    /\ UNCHANGED <<events, event_fields, event_settings>>

\* The same POST where up to MaxTokenId rows may be created: an invitation
\* can be retracted only by a POST that also adds an is_orga row, so that a
\* retraction needs a fourth row
TeamPostToken ==
    /\ last.op = "idle"
    /\ \E e \in events, extra \in ExtraForms :
        /\ nextId + Len(extra) - 1 <= MaxTokenId
        /\ \E initial \in InitialFormsets(SortedById(EventPerms(perms, e))) :
           LET r == EventTeam_post(perms, nextId, e, TRUE, initial, extra)
           IN  /\ perms' = r.perms
               /\ nextId' = r.nextId
               /\ last' = Answer(r.last)
    /\ UNCHANGED <<events, event_fields, event_settings>>

\* POST to the team settings of event e with a formset that does not validate
TeamPostInvalid ==
    /\ last.op = "idle"
    /\ \E e \in events :
        LET rows == SortedById(EventPerms(perms, e))
            r == EventTeam_post(perms, nextId, e, FALSE,
                                [i \in DOMAIN rows |-> Unedited(rows[i])], <<>>)
        IN  /\ perms' = r.perms
            /\ nextId' = r.nextId
            /\ last' = Answer(r.last)
    /\ UNCHANGED <<events, event_fields, event_settings>>

\* POST to the invitation page of `code`; user_id is the user the UserForm
\* logged in or registered (None: no such user)
InvitationPost ==
    /\ last.op = "idle"
    /\ \E i \in 1..MaxId, valid \in BOOLEAN, user_id \in Users \cup {None} :
        LET code == <<i>>
            found == InvitationView_object(perms, code)
            resp == [Response("accept", "ok") EXCEPT !.code = code, !.user = user_id]
        IN  /\ IF found = {}
               THEN /\ last' = Answer([resp EXCEPT !.outcome = "404"])
                    /\ UNCHANGED perms
               ELSE LET permission == CHOOSE p \in found : TRUE
                        r == [resp EXCEPT !.event = permission.event,
                                          !.saved = <<permission>>]
                    IN  IF ~valid
                        THEN /\ last' = Answer([r EXCEPT !.outcome = "invalid"])
                             /\ UNCHANGED perms
                        ELSE IF user_id = None
                        THEN /\ last' = Answer([r EXCEPT !.outcome = "no_user", !.message = "error"])
                             /\ UNCHANGED perms
                        ELSE /\ perms' = InvitationView_form_valid(perms, permission, user_id)
                             /\ last' = Answer([r EXCEPT !.logs = <<"pretalx.invite.orga.accept">>,
                                                  !.message = "info",
                                                  !.redirect = "orga_base"])
            /\ UNCHANGED <<events, event_fields, event_settings, nextId>>

\* What a finished EventDetail request leaves
Commit(r) ==
    /\ events' = r.events
    /\ event_fields' = r.event_fields
    /\ event_settings' = r.event_settings
    /\ perms' = r.perms
    /\ nextId' = r.nextId
    /\ last' = Answer(r.last)

\* POST to orga:event.create by `user`
EventCreate ==
    /\ last.op = "idle"
    /\ \E user \in Users \cup {Anonymous}, formValid \in BOOLEAN, data \in EventData :
        LET slug == SlugOf(Cardinality(events) + 1)
            resp == [Response("create", "ok") EXCEPT !.user = user, !.event = slug,
                                                     !.data = <<data, None, formValid, TRUE>>]
        IN  /\ Cardinality(events) < MaxEvents
            /\ nextId <= MaxId
            /\ IF dispatch(user, perms, None) = "PermissionDenied"
               THEN /\ last' = Answer([resp EXCEPT !.outcome = "403"])
                    /\ UNCHANGED <<events, event_fields, event_settings, perms, nextId>>
               ELSE IF ~formValid
               THEN /\ last' = Answer([resp EXCEPT !.outcome = "invalid"])
                    /\ UNCHANGED <<events, event_fields, event_settings, perms, nextId>>
               ELSE IF user = Anonymous
               THEN \* line 98 saves the Event; lines 103-108 cannot store an
                    \* anonymous person and raise.  Whether the saved Event
                    \* survives depends on the transaction the request runs in.
                    \E kept \in BOOLEAN :
                        LET r == EventDetail_form_valid(events, event_fields, event_settings,
                                     perms, nextId, user, None, slug, data, None, TRUE)
                        IN  /\ events' = IF kept THEN r.events ELSE events
                            /\ event_fields' = IF kept THEN r.event_fields ELSE event_fields
                            /\ event_settings' =
                                   IF kept THEN r.event_settings ELSE event_settings
                            /\ last' = Answer([resp EXCEPT !.outcome = "error"])
                            /\ UNCHANGED <<perms, nextId>>
               ELSE Commit(EventDetail_form_valid(events, event_fields, event_settings,
                               perms, nextId, user, None, slug, data, None, TRUE))

\* POST to the settings of event e by `user`
EventEdit ==
    /\ last.op = "idle"
    /\ \E user \in Users \cup {Anonymous}, e \in events, formValid \in BOOLEAN,
       sformValid \in BOOLEAN, data \in EventData, sdata \in SettingsData :
        LET resp == [Response("edit", "ok") EXCEPT !.user = user, !.event = e,
                                                   !.data = <<data, sdata, formValid,
                                                              sformValid>>]
        IN  /\ IF dispatch(user, perms, e) = "PermissionDenied"
               THEN /\ last' = Answer([resp EXCEPT !.outcome = "403"])
                    /\ UNCHANGED <<events, event_fields, event_settings, perms, nextId>>
               ELSE IF ~formValid
               THEN /\ last' = Answer([resp EXCEPT !.outcome = "invalid"])
                    /\ UNCHANGED <<events, event_fields, event_settings, perms, nextId>>
               ELSE Commit(EventDetail_form_valid(events, event_fields, event_settings,
                            perms, nextId, user, e, None, data, sdata, sformValid))

\* POST to the mail settings of event e
MailPost ==
    /\ last.op = "idle"
    /\ \E e \in events, valid \in BOOLEAN, data \in MailData, test \in BOOLEAN,
       raises \in BOOLEAN :
        /\ IF ~valid
           THEN /\ last' = Answer([Response("mail", "invalid") EXCEPT !.event = e,
                                                               !.data = <<data, test, raises>>])
                /\ UNCHANGED event_settings
           ELSE LET r == EventMailSettings_form_valid(event_settings, e, data, test, raises)
                IN  /\ event_settings' = r.event_settings
                    /\ last' = Answer(r.last)
        /\ UNCHANGED <<events, event_fields, perms, nextId>>

\* The response of the request being answered is delivered
Deliver ==
    /\ last.op # "idle"
    /\ last' = Idle
    /\ UNCHANGED <<events, event_fields, event_settings, perms, nextId>>

\* Team management: the requests that write the EventPermission table
Next == TeamPost \/ TeamPostInvalid \/ InvitationPost \/ EventCreate \/ Deliver
Spec == Init /\ [][Next]_vars

\* Event creation and editing
NextEvent == EventCreate \/ EventEdit \/ Deliver
SpecEvent == Init /\ [][NextEvent]_vars

\* Mail settings
NextMail == MailPost \/ Deliver
SpecMail == Init /\ [][NextMail]_vars

\* Invitations of one event: issued, accepted and retracted
NextToken == TeamPostToken \/ InvitationPost \/ Deliver
SpecToken == Init /\ [][NextToken]_vars

(***************************** properties **********************************)
TeamAnswered == last.op = "team"
TeamAccepted == last.op = "team" /\ last.outcome = "ok"
Accepted == last.op = "accept" /\ last.outcome = "ok"
RowsBefore(e) == EventPerms(last.before.perms, e)
RowsOf(P, e, user) == {p \in P : p.event = e /\ p.user = user}

\* C1: an event that had an EventPermission with is_orga=True before a
\* team-settings POST or an invitation acceptance still has one after it.
LastAdministratorNeverRemoved ==
    last.op \in {"team", "accept"} =>
        \A e \in events :
            OrgaPerms(last.before.perms, e) # {} => OrgaPerms(perms, e) # {}

\* C2: after InvitationView.form_valid succeeded for user U and invitation I
\* of event E, U holds exactly one EventPermission for E, each of its flags
\* is the OR of I's flag and the flag of U's row before; every row other than
\* I and U's row before is as it was, and there is no further row.
InvitationMerged ==
    Accepted =>
        LET I == last.saved[1]
            U == last.user
            B == last.before.perms
            pre == RowsOf(B, I.event, U)
            now == RowsOf(perms, I.event, U)
        IN  /\ Cardinality(now) = 1
            /\ \A r \in now :
                  /\ r.is_orga = (I.is_orga \/ \E q \in pre : q.is_orga)
                  /\ r.is_reviewer = (I.is_reviewer \/ \E q \in pre : q.is_reviewer)
                  /\ r.id \in {q.id : q \in pre \cup {I}}
            /\ B \ (pre \cup {I}) = perms \ now

\* C2 witness: an acceptance merged a reviewer invitation into an orga row
InvitationMergedWitness ==
    /\ Accepted
    /\ last.saved[1].is_reviewer /\ ~last.saved[1].is_orga
    /\ \E q \in RowsOf(last.before.perms, last.event, last.user) :
           q.is_orga /\ ~q.is_reviewer
    /\ \E r \in RowsOf(perms, last.event, last.user) : r.is_orga /\ r.is_reviewer

\* C3: a valid team-settings POST that only marks one row for deletion, while
\* another is_orga row of the event is submitted unchanged, is accepted: the
\* marked row is deleted and nothing else changes.
RetractWhileTeamRemains ==
    /\ TeamAnswered
    /\ last.outcome # "invalid"
    /\ Cardinality(last.marked) = 1
    /\ last.edited = {}
    /\ last.extra = <<>>
    /\ \E q \in RowsBefore(last.event) : q.is_orga /\ q.id \notin last.marked
    => /\ last.outcome = "ok"
       /\ perms = {q \in last.before.perms : q.id \notin last.marked}

TablesNow == Tables(events, event_fields, event_settings, perms)

\* C4: a request to the event-create view by an authenticated user who is not
\* an administrator is answered 403, whatever the form holds, and leaves
\* every Event and EventPermission as it was.
NonAdministratorCannotCreate ==
    last.op = "create" /\ last.user \in Users /\ ~is_administrator(last.user)
    => /\ last.outcome = "403"
       /\ TablesNow = last.before
       /\ last.logs = <<>> /\ last.tasks = <<>>

\* C4 witness: a non-administrator posted a valid form and got 403
NonAdministratorCannotCreateWitness ==
    /\ last.op = "create" /\ last.user = "orga"
    /\ last.data[3]
    /\ last.outcome = "403"

\* C5: a valid creation POST by an administrator adds exactly one Event and
\* exactly one EventPermission, which is of the new event, belongs to the
\* creator and has is_orga=True; one CSS regeneration task is dispatched for
\* the saved event.  Every request answered as a successful creation is one.
AdministratorCreatesEventWithOrga ==
    /\ last.op = "create" /\ is_administrator(last.user) /\ last.data[3]
       => last.outcome = "ok"
    /\ last.op = "create" /\ last.outcome = "ok"
       => /\ last.event \notin last.before.events
          /\ events = last.before.events \cup {last.event}
          /\ \E r \in perms \ last.before.perms :
                /\ perms = last.before.perms \cup {r}
                /\ r.event = last.event
                /\ r.user = last.user
                /\ r.is_orga
          /\ OrgaPerms(perms, last.event) # {}
          /\ last.tasks = <<last.event>>
          /\ last.logs = <<"pretalx.event.create">>

\* C5 witness: the administrator created the second event
AdministratorCreatesEventWithOrgaWitness ==
    /\ last.op = "create" /\ last.outcome = "ok"
    /\ last.user = "root" /\ last.event = "e2"
    /\ "e2" \in events /\ "e2" \notin last.before.events

\* C6: a valid team-settings POST that only adds one form whose
\* invitation_email is neither nick nor e-mail of a user adds exactly one row,
\* with no user, a token and the submitted flags, leaves every other row as it
\* was and sends exactly one mail.
InviteUnknownAddsOne ==
    /\ TeamAnswered
    /\ last.outcome # "invalid"
    /\ last.marked = {} /\ last.edited = {}
    /\ Len(last.extra) = 1
    /\ \A u \in Users : /\ Nick(u) # last.extra[1].invitation_email
                        /\ Email(u) # last.extra[1].invitation_email
    => /\ last.outcome = "ok"
       /\ \E r \in perms \ last.before.perms :
             /\ perms = last.before.perms \cup {r}
             /\ r.event = last.event
             /\ r.user = None
             /\ r.invitation_token # NoToken
             /\ r.is_orga = last.extra[1].is_orga
             /\ r.is_reviewer = last.extra[1].is_reviewer
       /\ last.mails = 1

\* C7: every valid mail-settings POST stores the submitted settings, with or
\* without a test and whether or not the test raises; a raising test is
\* answered with a warning and a redirect to the mail settings, never with an
\* error, and nothing but the mail settings of the event changes.
MailSettingsPersisted ==
    last.op = "mail" /\ last.outcome # "invalid"
    => /\ event_settings[last.event].mail = last.data[1]
       /\ TablesNow = [last.before EXCEPT
                          !.event_settings[last.event].mail = last.data[1]]
       /\ last.outcome \in {"saved", "test_ok", "test_failed"}
       /\ last.redirect = "mail_settings"
       /\ (last.data[2] /\ last.data[3])
             <=> (last.outcome = "test_failed" /\ last.message = "warning")

\* C7 witness: the test raised and the new settings are stored
MailSettingsPersistedWitness ==
    /\ last.op = "mail" /\ last.outcome = "test_failed"
    /\ last.before.event_settings[last.event].mail # last.data[1]
    /\ event_settings[last.event].mail = last.data[1]

\* C8: an edit of an event stores the Event and its settings only when the
\* event form and the settings form are both valid, and then stores both;
\* otherwise neither changes, nothing is logged and no task is dispatched.
EditAllOrNothing ==
    last.op = "edit"
    => /\ last.outcome = "ok"
          => /\ last.data[3] /\ last.data[4]
             /\ event_fields[last.event] = last.data[1]
             /\ event_settings[last.event].display = last.data[2]
             /\ last.logs = <<"pretalx.event.update">>
             /\ last.tasks = <<last.event>>
       /\ last.outcome # "ok"
          => /\ TablesNow = last.before
             /\ last.logs = <<>> /\ last.tasks = <<>>
       /\ ~(last.data[3] /\ last.data[4]) => last.outcome # "ok"
       /\ perms = last.before.perms /\ events = last.before.events

\* C8 witness: a valid event form with an invalid settings form changed nothing
EditAllOrNothingWitness ==
    /\ last.op = "edit" /\ last.outcome = "invalid"
    /\ last.data[3] /\ ~last.data[4]
    /\ last.data[1] # last.before.event_fields[last.event]
    /\ event_fields = last.before.event_fields

\* C9: a team-settings POST that is rejected (the formset is invalid, or no
\* team would remain) leaves every table as it was, logs nothing and sends no
\* mail.
RejectedTeamPostHasNoEffect ==
    TeamAnswered /\ last.outcome \in {"invalid", "lonely"}
    => /\ TablesNow = last.before
       /\ last.saved = <<>>
       /\ last.logs = <<>>
       /\ last.mails = 0

\* C9 witness: a POST that marked a row and invited someone was rejected
RejectedTeamPostHasNoEffectWitness ==
    /\ TeamAnswered /\ last.outcome = "lonely"
    /\ last.marked # {} /\ last.extra # <<>>

\* C10: every permission saved by an accepted team-settings POST whose
\* invitation_email is the nick of a user is saved bound to that user, else
\* if it is the e-mail of a user bound to that one, in both cases with
\* invitation_email and invitation_token cleared; one that matches no user is
\* saved with its invitation_email and without a user.
KnownUserBoundDirectly ==
    TeamAccepted
    => /\ Len(last.saved) = Len(last.extra)
       /\ \A i \in DOMAIN last.saved :
             LET m == last.extra[i].invitation_email
                 r == last.saved[i]
                 byNick == {u \in Users : Nick(u) = m}
                 byEmail == {u \in Users : Email(u) = m}
                 cleared == r.invitation_email = None /\ r.invitation_token = NoToken
             IN  /\ byNick # {} => r.user \in byNick /\ cleared
                 /\ byNick = {} /\ byEmail # {} => r.user \in byEmail /\ cleared
                 /\ byNick = {} /\ byEmail = {}
                       => r.user = None /\ r.invitation_email = m /\ r \in perms
                 /\ \A q \in perms : q.id = r.id => q = r

\* C10 witness: an address that is one user's nick and another's e-mail was
\* bound to the user whose nick it is
KnownUserBoundDirectlyWitness ==
    /\ TeamAccepted
    /\ \E i \in DOMAIN last.saved :
          /\ last.extra[i].invitation_email = "orga@x"
          /\ last.saved[i].user = "rev"
          /\ last.saved[i] \in perms

\* C11: in create mode only an administrator gets past dispatch: a creation
\* request by anyone else, an anonymous requester included, is answered 403
\* and leaves the Event table as it was.
CreationRestrictedToAdministrators ==
    last.op = "create" /\ ~is_administrator(last.user)
    => /\ dispatch(last.user, last.before.perms, None) = "PermissionDenied"
       /\ last.outcome = "403"
       /\ events = last.before.events

\* C12: no user ever holds more than one EventPermission for an event, after
\* any sequence of event creations, team-settings POSTs and invitation
\* acceptances.
OnePermissionPerUserAndEvent ==
    \A e \in events, u \in Users : Cardinality(RowsOf(perms, e, u)) <= 1

\* C12 witness: an accepted team-settings POST saved a new row bound to a user
\* who already had a row for the event, and the user holds one row
OnePermissionPerUserAndEventWitness ==
    /\ TeamAccepted
    /\ \E i \in DOMAIN last.saved :
          /\ last.saved[i].user # None
          /\ RowsOf(last.before.perms, last.event, last.saved[i].user) # {}
          /\ RowsOf(perms, last.event, last.saved[i].user) = {last.saved[i]}

\* C13: after an accepted team-settings POST every user to whom a permission
\* saved by that POST is bound holds exactly one EventPermission for the
\* event, and it is a row saved by that POST.
DedupKeepsOneSavedRecord ==
    TeamAccepted
    => \A i \in DOMAIN last.saved :
          last.saved[i].user # None
          => LET now == RowsOf(perms, last.event, last.saved[i].user)
             IN  /\ Cardinality(now) = 1
                 /\ \A r \in now : \E j \in DOMAIN last.saved : last.saved[j] = r

\* One step of the system, seen from the invitation tokens issued so far (the
\* default tokens of the rows with a primary key below nextId)
TokenStep ==
    /\ \* a successful acceptance leaves nothing its token resolves to
       last'.op = "accept" /\ last'.outcome = "ok"
          => InvitationView_object(perms', last'.code) = {}
    /\ \* an issued token that resolves to nothing never resolves again
       \A i \in 1..MaxTokenId :
          i < nextId /\ InvitationView_object(perms, <<i>>) = {}
          => InvitationView_object(perms', <<i>>) = {}
    /\ \* a request with such a token is answered 404 and writes nothing
       last'.op = "accept" /\ InvitationView_object(perms, last'.code) = {}
          => last'.outcome = "404" /\ perms' = perms
    /\ \* a token resolves only to a row without a user
       \A i \in 1..MaxTokenId :
          \A p \in InvitationView_object(perms', <<i>>) : p.user = None

\* C14: an invitation token is single-use: once an acceptance with it has
\* succeeded, or its row was deleted by a team-settings POST, every later
\* request with that token is answered 404 and changes no permission.
TokenSingleUse == [][TokenStep]_vars

\* C14 witness: a request with the token of an invitation that was already
\* accepted (its row now has a user) was answered 404
TokenSingleUseWitness ==
    /\ last.op = "accept" /\ last.outcome = "404"
    /\ perms = last.before.perms
    /\ \E p \in perms : /\ p.invitation_token = last.code
                        /\ p.user # None
                        /\ p.invitation_email # None

====
